---- MODULE Spec2Model ----
(***************************************************************************)
(* Model of scripts/run_static_analysis.py (BlueStl static analysis        *)
(* runner): the line-oriented clang-tidy normalizer, the cppcheck XML      *)
(* normalizer, the clang-analyzer stub, the aggregation done by            *)
(* generate_summary_report and the session driven by main().               *)
(*                                                                         *)
(* Text that the code inspects character by character (diagnostic lines,   *)
(* the line/column attributes handed to int(), rule ids) is a sequence of  *)
(* one-character strings.  Text that is only passed through or compared    *)
(* as a whole (severities, file paths, tool names, artifact names) is a    *)
(* TLA+ string.                                                            *)
(***************************************************************************)
EXTENDS Integers, Sequences, FiniteSets, TLC

VARIABLES
    pc,                \* position of main(): see Init / the session actions
    args,              \* parsed command line (no_clang_tidy, no_cppcheck, enable_clang_analyzer)
    header_files,      \* files['headers'] as returned by find_source_files
    timestamp,         \* StaticAnalysisRunner.timestamp
    analysis_results,  \* main's analysis_results list
    written,           \* names of the files written into output_dir
    xml_report,        \* what run_cppcheck wrote into cppcheck_<timestamp>.xml
    summary,           \* what generate_summary_report computed and rendered
    exception,         \* the uncaught exception that ended the process, or "none"
    line,              \* input of the line-oriented normalizer (LineSpec)
    parsed             \* its output: <<issue>> for a candidate line, <<>> otherwise

vars == <<pc, args, header_files, timestamp, analysis_results, written,
          xml_report, summary, exception, line, parsed>>

(***************************************************************************)
(* Bounds                                                                  *)
(***************************************************************************)
\* header files found by find_source_files (0 .. MaxFiles)
MaxFiles == 2
\* diagnostic lines clang-tidy prints on stderr for one file
MaxLines == 1
\* <error> entries of one cppcheck XML document
MaxErrors == 2
\* ':'-separated fields put in front of the severity marker of a generated line
MaxFields == 2
\* issues spread over the ToolResults handed to the aggregation (AggSpec)
MaxIssues == 6
\* ToolResults handed to the aggregation (AggSpec)
MaxResults == 2

(***************************************************************************)
(* Python text primitives                                                  *)
(***************************************************************************)
Digits == <<"0", "1", "2", "3", "4", "5", "6", "7", "8", "9">>

IsDigit(c) == \E i \in 1..10 : Digits[i] = c

DigitVal(c) == (CHOOSE i \in 1..10 : Digits[i] = c) - 1

IsSpace(c) == c = " "

\* pat in s
Contains(s, pat) ==
    \E i \in 1..(Len(s) - Len(pat) + 1) : SubSeq(s, i, i + Len(pat) - 1) = pat

\* s.split(c): the fields between the occurrences of the one-character separator c
RECURSIVE SplitFrom(_, _, _, _)
SplitFrom(s, c, i, cur) ==
    IF i > Len(s) THEN <<cur>>
    ELSE IF s[i] = c THEN <<cur>> \o SplitFrom(s, c, i + 1, <<>>)
    ELSE SplitFrom(s, c, i + 1, Append(cur, s[i]))

Split(s, c) == SplitFrom(s, c, 1, <<>>)

\* s.strip()
RECURSIVE LStrip(_)
LStrip(s) == IF s # <<>> /\ IsSpace(Head(s)) THEN LStrip(Tail(s)) ELSE s

RECURSIVE RStrip(_)
RStrip(s) ==
    IF s # <<>> /\ IsSpace(s[Len(s)]) THEN RStrip(SubSeq(s, 1, Len(s) - 1)) ELSE s

Strip(s) == RStrip(LStrip(s))

\* the digit groups int() accepts: digits, with single underscores between digits
RECURSIVE DigitsOk(_, _)
DigitsOk(s, i) ==
    IF i > Len(s) THEN TRUE
    ELSE IF IsDigit(s[i]) THEN DigitsOk(s, i + 1)
    ELSE /\ s[i] = "_"
         /\ i > 1 /\ i < Len(s)
         /\ IsDigit(s[i - 1]) /\ IsDigit(s[i + 1])
         /\ DigitsOk(s, i + 1)

RECURSIVE DigitsValue(_, _, _)
DigitsValue(s, i, acc) ==
    IF i > Len(s) THEN acc
    ELSE IF s[i] = "_" THEN DigitsValue(s, i + 1, acc)
    ELSE DigitsValue(s, i + 1, acc * 10 + DigitVal(s[i]))

\* int(text): surrounding whitespace stripped, an optional sign, decimal digits.
\* ok = FALSE stands for ValueError.
PyInt(text) ==
    LET t    == Strip(text)
        sgn  == IF t # <<>> /\ t[1] \in {"-", "+"} THEN t[1] ELSE ""
        body == IF sgn = "" THEN t ELSE Tail(t)
    IN  IF body = <<>> \/ ~DigitsOk(body, 1)
        THEN [ok |-> FALSE, val |-> 0]
        ELSE [ok |-> TRUE,
              val |-> IF sgn = "-" THEN 0 - DigitsValue(body, 1, 0)
                      ELSE DigitsValue(body, 1, 0)]

(***************************************************************************)
(* Line-oriented normalizer (clang-tidy stderr)                            *)
(***************************************************************************)
WARNING_MARK == <<"w", "a", "r", "n", "i", "n", "g", ":">>
ERROR_MARK == <<"e", "r", "r", "o", "r", ":">>
UNKNOWN == <<"u", "n", "k", "n", "o", "w", "n">>

\* int(line.split(':')[idx]) with IndexError and ValueError turned into 0;
\* idx is the Python (0-based) index
ExtractNumber(l, idx) ==
    LET toks == Split(l, ":")
    IN  IF idx + 1 > Len(toks) THEN 0
        ELSE IF PyInt(toks[idx + 1]).ok THEN PyInt(toks[idx + 1]).val ELSE 0

_extract_line_number(l) == ExtractNumber(l, 1)

_extract_column_number(l) == ExtractNumber(l, 2)

_extract_rule_name(l) ==
    IF Contains(l, <<"[">>) /\ Contains(l, <<"]">>)
    THEN Split(Split(l, "[")[2], "]")[1]
    ELSE UNKNOWN

IsCandidate(l) == Contains(l, WARNING_MARK) \/ Contains(l, ERROR_MARK)

\* the dict appended to issues for one candidate line
TidyIssue(file_path, l) ==
    [file     |-> file_path,
     line     |-> _extract_line_number(l),
     column   |-> _extract_column_number(l),
     severity |-> IF Contains(l, WARNING_MARK) THEN "warning" ELSE "error",
     message  |-> Strip(l),
     rule     |-> _extract_rule_name(l)]

\* the inner loop over result.stderr.split('\n'): lines is that list of lines
RECURSIVE TidyIssuesOfLines(_, _)
TidyIssuesOfLines(file_path, lines) ==
    IF lines = <<>> THEN <<>>
    ELSE (IF IsCandidate(Head(lines)) THEN <<TidyIssue(file_path, Head(lines))>> ELSE <<>>)
         \o TidyIssuesOfLines(file_path, Tail(lines))

(***************************************************************************)
(* Structured-document normalizer (cppcheck XML)                           *)
(*                                                                         *)
(* A document is what ET.parse makes of the file: either a ParseError      *)
(* (wellformed = FALSE) or the <error> elements in document order.  An     *)
(* element is its attribute map (a function from attribute names to text)  *)
(* and the attribute maps of its <location> children.                      *)
(***************************************************************************)
\* mapping.get(key, default)
Get(mapping, key, default) == IF key \in DOMAIN mapping THEN mapping[key] ELSE default

\* int(location.get(key, 0)): the default is the integer 0, which int() returns as is
LocationInt(location, key) ==
    IF key \in DOMAIN location THEN PyInt(location[key]) ELSE [ok |-> TRUE, val |-> 0]

\* the dict appended to issues for one <error> that has a <location>
CppcheckIssue(error, location) ==
    [file     |-> Get(location, "file", ""),
     line     |-> LocationInt(location, "line").val,
     column   |-> LocationInt(location, "column").val,
     severity |-> Get(error.attrs, "severity", "unknown"),
     message  |-> Get(error.attrs, "msg", <<>>),
     rule     |-> Get(error.attrs, "id", UNKNOWN)]

\* the loop over root.findall('.//error'); raised = "ValueError" when an int()
\* of a line or column attribute fails, which ends the loop and leaves the function
RECURSIVE ParseErrors(_, _)
ParseErrors(errors, issues) ==
    IF errors = <<>> THEN [raised |-> "none", issues |-> issues]
    ELSE LET error == Head(errors)
         IN  IF error.locations = <<>> THEN ParseErrors(Tail(errors), issues)
             ELSE LET location == Head(error.locations)
                  IN  IF ~LocationInt(location, "line").ok
                         \/ ~LocationInt(location, "column").ok
                      THEN [raised |-> "ValueError", issues |-> issues]
                      ELSE ParseErrors(Tail(errors),
                                       Append(issues, CppcheckIssue(error, location)))

\* _parse_cppcheck_xml: ET.ParseError is caught and gives the empty list
_parse_cppcheck_xml(doc) ==
    IF ~doc.wellformed THEN [raised |-> "none", issues |-> <<>>]
    ELSE ParseErrors(doc.errors, <<>>)

\* _parse_clang_analyzer_plist
_parse_clang_analyzer_plist(plist_file) == <<>>

(***************************************************************************)
(* ToolResults                                                             *)
(***************************************************************************)
\* result_data of run_clang_tidy with a count that is never updated from the list
ClangTidyResultStaleCount(ts, issues) ==
    [tool |-> "clang-tidy", timestamp |-> ts, issues_count |-> 0, issues |-> issues]

\* result_data of run_clang_tidy
ClangTidyResult(ts, issues) ==
    [tool |-> "clang-tidy", timestamp |-> ts,
     issues_count |-> Len(issues), issues |-> issues]

\* result_data of run_cppcheck
CppcheckResult(ts, issues) ==
    [tool |-> "cppcheck", timestamp |-> ts,
     issues_count |-> Len(issues), issues |-> issues]

\* what run_cppcheck returns from its except clause
CppcheckFailureResult == [tool |-> "cppcheck", issues_count |-> 0, issues |-> <<>>]

\* result_data of run_clang_analyzer
ClangAnalyzerResult(ts, issues) ==
    [tool |-> "clang-analyzer", timestamp |-> ts,
     issues_count |-> Len(issues), issues |-> issues]

\* names of the files the runs write into output_dir
ClangTidyReportFile(ts) == "clang_tidy_" \o ts \o ".json"

CppcheckXmlReport(ts) == "cppcheck_" \o ts \o ".xml"

CppcheckJsonReport(ts) == "cppcheck_" \o ts \o ".json"

ClangAnalyzerJsonReport(ts) == "clang_analyzer_" \o ts \o ".json"

SummaryFile(ts) == "summary_" \o ts \o ".md"

\* what subprocess.run raises: FileNotFoundError when the program cannot be
\* started, CalledProcessError only under check=True and a non-zero exit status
SubprocessRaises(check, installed, returncode) ==
    IF ~installed THEN "FileNotFoundError"
    ELSE IF check /\ returncode # 0 THEN "CalledProcessError"
    ELSE "none"

(***************************************************************************)
(* Aggregation (generate_summary_report)                                   *)
(*                                                                         *)
(* rule_counts is a Python dict: its items() come in insertion order, so   *)
(* it is a sequence of <<rule, count>> pairs in the order of first         *)
(* insertion.                                                              *)
(***************************************************************************)
SeverityBuckets == {"error", "warning", "style", "performance", "portability"}

\* the [:5] of the top_rules slice
TopN == 5

\* sum(result.get('issues_count', 0) for result in analysis_results), wrongly
\* taken from the last result only
TotalIssuesLastOnly(results) ==
    IF results = <<>> THEN 0 ELSE results[Len(results)].issues_count

\* sum(result.get('issues_count', 0) for result in analysis_results)
RECURSIVE TotalIssues(_)
TotalIssues(results) ==
    IF results = <<>> THEN 0
    ELSE Get(Head(results), "issues_count", 0) + TotalIssues(Tail(results))

\* the severity step with the membership test left out: a severity outside
\* the table lands in the error bucket
CountSeverityNoTest(counts, issue) ==
    LET severity == Get(issue, "severity", "unknown")
    IN  IF severity \in DOMAIN counts
        THEN [counts EXCEPT ![severity] = @ + 1]
        ELSE [counts EXCEPT !["error"] = @ + 1]

\* severity = issue.get('severity', 'unknown'); if severity in severity_counts: += 1
CountSeverity(counts, issue) ==
    LET severity == Get(issue, "severity", "unknown")
    IN  IF severity \in DOMAIN counts
        THEN [counts EXCEPT ![severity] = @ + 1]
        ELSE counts

\* rule_counts[rule] = rule_counts.get(rule, 0) + 1
CountRule(rule_counts, issue) ==
    LET rule == Get(issue, "rule", UNKNOWN)
    IN  IF \E i \in 1..Len(rule_counts) : rule_counts[i][1] = rule
        THEN [i \in 1..Len(rule_counts) |->
                 IF rule_counts[i][1] = rule
                 THEN <<rule, rule_counts[i][2] + 1>>
                 ELSE rule_counts[i]]
        ELSE Append(rule_counts, <<rule, 1>>)

\* the inner loop: for issue in result.get('issues', [])
RECURSIVE TallyIssues(_, _)
TallyIssues(issues, acc) ==
    IF issues = <<>> THEN acc
    ELSE TallyIssues(Tail(issues),
                     [severity_counts |-> CountSeverity(acc.severity_counts, Head(issues)),
                      rule_counts     |-> CountRule(acc.rule_counts, Head(issues))])

\* the outer loop: for result in analysis_results
RECURSIVE TallyResults(_, _)
TallyResults(results, acc) ==
    IF results = <<>> THEN acc
    ELSE TallyResults(Tail(results), TallyIssues(Get(Head(results), "issues", <<>>), acc))

Tally(results) ==
    TallyResults(results, [severity_counts |-> [s \in SeverityBuckets |-> 0],
                           rule_counts     |-> <<>>])

\* number of leading items of a count-descending list whose count is >= c (> c when strict)
RECURSIVE PrefixAtLeast(_, _, _)
PrefixAtLeast(sorted, c, strict) ==
    IF sorted = <<>> THEN 0
    ELSE IF Head(sorted)[2] > c \/ (~strict /\ Head(sorted)[2] = c)
         THEN 1 + PrefixAtLeast(Tail(sorted), c, strict)
         ELSE 0

InsertAt(sorted, k, item) ==
    SubSeq(sorted, 1, k) \o <<item>> \o SubSeq(sorted, k + 1, Len(sorted))

\* a descending sort that is not stable: an item goes in front of the items
\* of equal count already placed, as sorting ascending and reversing does
RECURSIVE SortedTiesReversed(_, _)
SortedTiesReversed(items, sorted) ==
    IF items = <<>> THEN sorted
    ELSE SortedTiesReversed(Tail(items),
             InsertAt(sorted, PrefixAtLeast(sorted, Head(items)[2], TRUE), Head(items)))

\* sorted(items, key=lambda x: x[1], reverse=True): Python's sort is stable and
\* reverse=True keeps the original order of items with equal keys, so each item goes
\* behind every item already placed whose count is at least its own
RECURSIVE SortedByCountDesc(_, _)
SortedByCountDesc(items, sorted) ==
    IF items = <<>> THEN sorted
    ELSE SortedByCountDesc(Tail(items),
             InsertAt(sorted, PrefixAtLeast(sorted, Head(items)[2], FALSE), Head(items)))

\* sorted(rule_counts.items(), ...)[:5]
TopRules(rule_counts) ==
    LET sorted == SortedByCountDesc(rule_counts, <<>>)
    IN  SubSeq(sorted, 1, IF Len(sorted) < TopN THEN Len(sorted) ELSE TopN)

\* one row of the per-tool table
ToolRow(result) ==
    LET issues_count == Get(result, "issues_count", 0)
    IN  [tool |-> Get(result, "tool", "Unknown"),
         issues_count |-> issues_count,
         status |-> IF issues_count >= 0 THEN "ok" ELSE "error"]

\* one entry of the detail report list
Reference(result, ts) == Get(result, "tool", "Unknown") \o "_" \o ts \o ".json"

\* the statistics generate_summary_report computes: total_issues,
\* severity_counts, rule_counts and top_rules
Aggregate(results) ==
    LET tally == Tally(results)
    IN  [total_issues    |-> TotalIssues(results),
         severity_counts |-> tally.severity_counts,
         rule_counts     |-> tally.rule_counts,
         top_rules       |-> TopRules(tally.rule_counts)]

\* everything generate_summary_report writes into the report: the statistics,
\* the per-tool table and the detail report list
Summarise(results, ts) ==
    Aggregate(results)
        @@ [rows       |-> [i \in 1..Len(results) |-> ToolRow(results[i])],
            references |-> [i \in 1..Len(results) |-> Reference(results[i], ts)]]

\* summary before generate_summary_report has run
NoSummary == <<>>

(***************************************************************************)
(* Inputs: what the environment (file system, external tools) can hand in  *)
(***************************************************************************)
SeqsUpTo(S, n) == UNION {[1..k -> S] : k \in 0..n}

\* datetime.now().strftime("%Y%m%d_%H%M%S") at construction
Timestamps == {"20250101_120000"}

HeaderFile(i) == "include/bluestl/h" \o ToString(i) \o ".h"

\* "h:42:7: warning: m [r1]"
TidyLineWarning ==
    <<"h", ":", "4", "2", ":", "7", ":", " ">> \o WARNING_MARK
        \o <<" ", "m", " ", "[", "r", "1", "]">>

\* "h:3:1: error: v[0] [r2]"
TidyLineError ==
    <<"h", ":", "3", ":", "1", ":", " ">> \o ERROR_MARK
        \o <<" ", "v", "[", "0", "]", " ", "[", "r", "2", "]">>

\* "h:3:1: note: x"
TidyLineNote == <<"h", ":", "3", ":", "1", ":", " ", "n", "o", "t", "e", ":", " ", "x">>

TidyLinePool == {TidyLineWarning, TidyLineError, TidyLineNote}

\* <error severity="error" id="nullPointer" msg="deref of null">
\*   <location file="x.h" line="10" column="3"/></error>
XmlErrorNull ==
    [attrs |-> [severity |-> "error", id |-> <<"n", "u", "l", "l">>, msg |-> <<"d">>],
     locations |-> <<[file |-> "x.h", line |-> <<"1", "0">>, column |-> <<"3">>]>>]

\* <error severity="information" id="mi" msg="i"><location file="y.h" line="7"/></error>
XmlErrorInformation ==
    [attrs |-> [severity |-> "information", id |-> <<"m", "i">>, msg |-> <<"i">>],
     locations |-> <<[file |-> "y.h", line |-> <<"7">>]>>]

\* <error msg="g"/>: no location, no severity, no id
XmlErrorNoLocation == [attrs |-> [msg |-> <<"g">>], locations |-> <<>>]

\* <error severity="style" id="st" msg="s"><location file="z.h" line="abc" column="3"/></error>
XmlErrorBadLine ==
    [attrs |-> [severity |-> "style", id |-> <<"s", "t">>, msg |-> <<"s">>],
     locations |-> <<[file |-> "z.h", line |-> <<"a", "b", "c">>, column |-> <<"3">>]>>]

\* <error msg="u"><location file="w.h" line="12" column="1"/></error>
XmlErrorNoAttrs ==
    [attrs |-> [msg |-> <<"u">>],
     locations |-> <<[file |-> "w.h", line |-> <<"1", "2">>, column |-> <<"1">>]>>]

XmlErrorPool ==
    {XmlErrorNull, XmlErrorInformation, XmlErrorNoLocation, XmlErrorBadLine, XmlErrorNoAttrs}

\* cppcheck_<timestamp>.xml before run_cppcheck has written it
NoReport == [wellformed |-> FALSE, errors |-> <<>>, written |-> FALSE]

XmlDocs ==
    {[wellformed |-> FALSE, errors |-> <<>>]}
        \cup {[wellformed |-> TRUE, errors |-> es] : es \in SeqsUpTo(XmlErrorPool, MaxErrors)}

(***************************************************************************)
(* The session: main()                                                     *)
(***************************************************************************)
Init ==
    /\ pc = "start"
    /\ args \in [no_clang_tidy : BOOLEAN, no_cppcheck : BOOLEAN,
                 enable_clang_analyzer : BOOLEAN]
    /\ header_files = <<>>
    /\ timestamp \in Timestamps
    /\ analysis_results = <<>>
    /\ written = {}
    /\ xml_report = NoReport
    /\ summary = NoSummary
    /\ exception = "none"
    /\ line = <<>>
    /\ parsed = <<>>

\* files = runner.find_source_files(); if not header_files: sys.exit(1)
FindSourceFiles ==
    /\ pc = "start"
    /\ \E n \in 0..MaxFiles :
          /\ header_files' = [i \in 1..n |-> HeaderFile(i)]
          /\ pc' = IF n = 0 THEN "exit1" ELSE "clang_tidy"
    /\ UNCHANGED <<xml_report, args, timestamp, analysis_results, written, summary,
                   exception,
                   line, parsed>>

\* an exception nobody catches ends the process
Crash(exc) ==
    /\ pc' = "crashed"
    /\ exception' = exc

RECURSIVE TidyIssuesOfFiles(_, _)
\* the outer loop of run_clang_tidy: stderrs[i] is the list of stderr lines for files[i]
TidyIssuesOfFiles(files, stderrs) ==
    IF files = <<>> THEN <<>>
    ELSE TidyIssuesOfLines(Head(files), Head(stderrs))
         \o TidyIssuesOfFiles(Tail(files), Tail(stderrs))

\* if not args.no_clang_tidy: analysis_results.append(runner.run_clang_tidy(...))
RunClangTidy ==
    /\ pc = "clang_tidy"
    /\ ~args.no_clang_tidy
    /\ \E installed \in BOOLEAN, returncode \in {0, 1},
          stderrs \in [1..Len(header_files) -> SeqsUpTo(TidyLinePool, MaxLines)] :
          IF SubprocessRaises(FALSE, installed, returncode) = "FileNotFoundError"
          THEN /\ Crash("FileNotFoundError")
               /\ UNCHANGED <<analysis_results, written>>
          ELSE /\ analysis_results' =
                      Append(analysis_results,
                             ClangTidyResult(timestamp,
                                             TidyIssuesOfFiles(header_files, stderrs)))
               /\ written' = written \cup {ClangTidyReportFile(timestamp)}
               /\ pc' = "cppcheck"
               /\ UNCHANGED exception
    /\ UNCHANGED <<xml_report, args, header_files, timestamp, summary, line, parsed>>

SkipClangTidy ==
    /\ pc = "clang_tidy"
    /\ args.no_clang_tidy
    /\ pc' = "cppcheck"
    /\ UNCHANGED <<xml_report, args, header_files, timestamp, analysis_results,
                   written, summary,
                   exception, line, parsed>>

\* if not args.no_cppcheck: analysis_results.append(runner.run_cppcheck(output_dir))
RunCppcheck ==
    /\ pc = "cppcheck"
    /\ ~args.no_cppcheck
    /\ \E installed \in BOOLEAN, returncode \in {0, 1}, doc \in XmlDocs :
          LET raised == SubprocessRaises(FALSE, installed, returncode)
              xml    == _parse_cppcheck_xml(doc)
          IN  IF raised = "FileNotFoundError"
              THEN /\ Crash("FileNotFoundError")
                   /\ UNCHANGED <<analysis_results, written, xml_report>>
              ELSE IF raised = "CalledProcessError"
              THEN /\ analysis_results' = Append(analysis_results, CppcheckFailureResult)
                   /\ pc' = "clang_analyzer"
                   /\ UNCHANGED <<written, xml_report, exception>>
              ELSE IF xml.raised # "none"
              THEN /\ Crash(xml.raised)
                   /\ written' = written \cup {CppcheckXmlReport(timestamp)}
                   /\ xml_report' = doc @@ [written |-> TRUE]
                   /\ UNCHANGED analysis_results
              ELSE /\ analysis_results' =
                          Append(analysis_results, CppcheckResult(timestamp, xml.issues))
                   /\ written' = written \cup {CppcheckXmlReport(timestamp),
                                               CppcheckJsonReport(timestamp)}
                   /\ xml_report' = doc @@ [written |-> TRUE]
                   /\ pc' = "clang_analyzer"
                   /\ UNCHANGED exception
    /\ UNCHANGED <<args, header_files, timestamp, summary, line, parsed>>

SkipCppcheck ==
    /\ pc = "cppcheck"
    /\ args.no_cppcheck
    /\ pc' = "clang_analyzer"
    /\ UNCHANGED <<xml_report, args, header_files, timestamp, analysis_results,
                   written, summary,
                   exception, line, parsed>>

\* for plist_file in plist_dir.glob('*.plist'): issues.extend(...)
RECURSIVE PlistIssues(_)
PlistIssues(n) ==
    IF n = 0 THEN <<>> ELSE PlistIssues(n - 1) \o _parse_clang_analyzer_plist(n)

\* if args.enable_clang_analyzer: analysis_results.append(runner.run_clang_analyzer(...))
\* CalledProcessError (check=True, non-zero exit) is caught and ignored per file
RunClangAnalyzer ==
    /\ pc = "clang_analyzer"
    /\ args.enable_clang_analyzer
    /\ \E installed \in BOOLEAN, returncode \in {0, 1}, plists \in 0..Len(header_files) :
          IF SubprocessRaises(TRUE, installed, returncode) = "FileNotFoundError"
          THEN /\ Crash("FileNotFoundError")
               /\ UNCHANGED <<analysis_results, written>>
          ELSE /\ analysis_results' =
                      Append(analysis_results,
                             ClangAnalyzerResult(timestamp, PlistIssues(plists)))
               /\ written' = written \cup {ClangAnalyzerJsonReport(timestamp)}
               /\ pc' = "summary"
               /\ UNCHANGED exception
    /\ UNCHANGED <<xml_report, args, header_files, timestamp, summary, line, parsed>>

SkipClangAnalyzer ==
    /\ pc = "clang_analyzer"
    /\ ~args.enable_clang_analyzer
    /\ pc' = "summary"
    /\ UNCHANGED <<xml_report, args, header_files, timestamp, analysis_results,
                   written, summary,
                   exception, line, parsed>>

\* summary_file = runner.generate_summary_report(output_dir, analysis_results)
GenerateSummaryReport ==
    /\ pc = "summary"
    /\ summary' = Summarise(analysis_results, timestamp)
    /\ written' = written \cup {SummaryFile(timestamp)}
    /\ pc' = "done"
    /\ UNCHANGED <<xml_report, args, header_files, timestamp, analysis_results, exception,
                   line, parsed>>

Next ==
    \/ FindSourceFiles
    \/ RunClangTidy
    \/ SkipClangTidy
    \/ RunCppcheck
    \/ SkipCppcheck
    \/ RunClangAnalyzer
    \/ SkipClangAnalyzer
    \/ GenerateSummaryReport

Spec == Init /\ [][Next]_vars

(***************************************************************************)
(* The line-oriented normalizer on its own (LineSpec): one line of         *)
(* clang-tidy output is drawn and the loop body of run_clang_tidy is       *)
(* applied to it.                                                          *)
(***************************************************************************)
FieldTokens == {<<"4", "2">>, <<"7">>, <<"-", "5">>, <<>>, <<"x">>, <<" ", "3">>}

\* "f", then k fields ":tok"
RECURSIVE Heads(_)
Heads(k) ==
    IF k = 0 THEN {<<"f">>}
    ELSE {h \o <<":">> \o t : h \in Heads(k - 1), t \in FieldTokens}

LineHeads ==
    {h \o <<":", " ">> : h \in UNION {Heads(k) : k \in 0..MaxFields}} \cup {<<"g", " ">>}

LineMarkers ==
    {WARNING_MARK, ERROR_MARK, ERROR_MARK \o <<" ">> \o WARNING_MARK,
     <<"n", "o", "t", "e", ":">>}

LineTails ==
    {<<>>,
     <<" ", "m", " ", "[", "r", "1", "]">>,
     <<" ", "v", "[", "0", "]", " ", "[", "r", "1", "]">>,
     <<" ", "m", " ", "[", "r", "1", "]", " ", "[", "r", "2", "]">>,
     <<" ", "]", " ", "m", " ", "[", "r", "2">>,
     <<" ", "m", " ", "]">>,
     <<" ", "[", "r", "1">>}

LineInputs == {h \o m \o t : h \in LineHeads, m \in LineMarkers, t \in LineTails}

LineInit ==
    /\ pc = "line_input"
    /\ line \in LineInputs
    /\ parsed = <<>>
    /\ args = [no_clang_tidy |-> FALSE, no_cppcheck |-> TRUE,
               enable_clang_analyzer |-> FALSE]
    /\ header_files = <<"f">>
    /\ timestamp \in Timestamps
    /\ analysis_results = <<>>
    /\ written = {}
    /\ xml_report = NoReport
    /\ summary = NoSummary
    /\ exception = "none"

\* the body of "for line in result.stderr.split('\n')" for one line of file f
NormalizeLine ==
    /\ pc = "line_input"
    /\ parsed' = TidyIssuesOfLines(header_files[1], <<line>>)
    /\ pc' = "line_done"
    /\ UNCHANGED <<xml_report, args, header_files, timestamp, analysis_results,
                   written, summary,
                   exception, line>>

LineNext == NormalizeLine

LineSpec == LineInit /\ [][LineNext]_vars

(***************************************************************************)
(* The aggregation on its own (AggSpec): generate_summary_report is        *)
(* applied to a drawn list of ToolResults.  Rule ids are opaque to the     *)
(* aggregation, so the drawn issue lists name the k-th distinct rule of    *)
(* the list rule k; every split of the list over the ToolResults is drawn. *)
(***************************************************************************)
AggSeverities ==
    <<"error", "warning", "style", "performance", "portability", "information", "unknown">>

AggIssue(r) ==
    [file     |-> "x.h",
     line     |-> r,
     column   |-> 0,
     severity |-> AggSeverities[((r - 1) % Len(AggSeverities)) + 1],
     message  |-> <<"m">>,
     rule     |-> <<"r", Digits[(r % 10) + 1]>>]

\* the largest rule number of a rule sequence, 0 for the empty one
MaxOf(s) ==
    IF s = <<>> THEN 0
    ELSE CHOOSE m \in 1..Len(s) :
             (\E i \in 1..Len(s) : s[i] = m) /\ (\A j \in 1..Len(s) : s[j] <= m)

\* rule sequences of length n in which rule k+1 first occurs after rule k
RECURSIVE RuleSeqs(_)
RuleSeqs(n) ==
    IF n = 0 THEN {<<>>}
    ELSE UNION {{Append(s, r) : r \in 1..(MaxOf(s) + 1)} : s \in RuleSeqs(n - 1)}

\* the non-decreasing cut points that split n issues over k ToolResults
Cuts(n, k) ==
    {c \in [1..(k - 1) -> 0..n] : \A i \in 1..(k - 2) : c[i] <= c[i + 1]}

ToolOrder == <<"clang-tidy", "cppcheck", "clang-analyzer">>

AggResult(i, ts, rules) ==
    [tool |-> ToolOrder[((i - 1) % 3) + 1], timestamp |-> ts,
     issues_count |-> Len(rules),
     issues |-> [j \in 1..Len(rules) |-> AggIssue(rules[j])]]

AggSplit(s, c, k, ts) ==
    [i \in 1..k |->
        AggResult(i, ts,
                  SubSeq(s, (IF i = 1 THEN 0 ELSE c[i - 1]) + 1,
                            IF i = k THEN Len(s) ELSE c[i]))]

AggInit ==
    /\ pc = "summary"
    /\ timestamp \in Timestamps
    /\ \E n \in 0..MaxIssues, k \in 0..MaxResults :
          /\ k = 0 => n = 0
          /\ \E s \in RuleSeqs(n), c \in Cuts(n, k) :
                 analysis_results = AggSplit(s, c, k, timestamp)
    /\ args = [no_clang_tidy |-> FALSE, no_cppcheck |-> FALSE,
               enable_clang_analyzer |-> TRUE]
    /\ header_files = <<"x.h">>
    /\ written = {}
    /\ xml_report = NoReport
    /\ summary = NoSummary
    /\ exception = "none"
    /\ line = <<>>
    /\ parsed = <<>>

AggNext == GenerateSummaryReport

AggSpec == AggInit /\ [][AggNext]_vars

(***************************************************************************)
(* Vocabulary of the properties                                            *)
(***************************************************************************)
\* the issues of a list of ToolResults in the order of the scan "tool by tool,
\* issue by issue"
RECURSIVE ScanOrder(_)
ScanOrder(results) ==
    IF results = <<>> THEN <<>> ELSE Head(results).issues \o ScanOrder(Tail(results))

RulesOf(flat) == {flat[k].rule : k \in 1..Len(flat)}

RuleCount(flat, rule) == Cardinality({k \in 1..Len(flat) : flat[k].rule = rule})

\* the position at which a rule is first seen
FirstSeen(flat, rule) ==
    CHOOSE k \in 1..Len(flat) :
        flat[k].rule = rule /\ \A j \in 1..(k - 1) : flat[j].rule # rule

\* r1 ranks above r2: more occurrences, or as many and first seen earlier
RanksAbove(flat, r1, r2) ==
    \/ RuleCount(flat, r1) > RuleCount(flat, r2)
    \/ /\ RuleCount(flat, r1) = RuleCount(flat, r2)
       /\ FirstSeen(flat, r1) < FirstSeen(flat, r2)

Range(f) == {f[i] : i \in DOMAIN f}

IndexPermutations(n) == {f \in [1..n -> 1..n] : \A i, j \in 1..n : f[i] = f[j] => i = j}

Permuted(results, f) == [i \in 1..Len(results) |-> results[f[i]]]

SeverityEnumeration ==
    {"error", "warning", "style", "performance", "portability", "unknown"}

BucketSum(counts) ==
    counts["error"] + counts["warning"] + counts["style"]
        + counts["performance"] + counts["portability"]

(***************************************************************************)
(* C1 (Spec).  Every ToolResult a tool run produces has issues_count equal *)
(* to the length of its issues list; so has the dict run_cppcheck returns  *)
(* from its except clause.                                                 *)
(***************************************************************************)
C1_IssuesCountIsLength ==
    /\ \A i \in 1..Len(analysis_results) :
          analysis_results[i].issues_count = Len(analysis_results[i].issues)
    /\ CppcheckFailureResult.issues_count = Len(CppcheckFailureResult.issues)

\* all three tools have run and the first two found several issues
C1_Witness ==
    /\ pc = "done"
    /\ Len(analysis_results) = 3
    /\ analysis_results[1].tool = "clang-tidy" /\ Len(analysis_results[1].issues) >= 2
    /\ analysis_results[2].tool = "cppcheck" /\ Len(analysis_results[2].issues) >= 2
    /\ analysis_results[3].tool = "clang-analyzer"

(***************************************************************************)
(* C2 (AggSpec).  The summary's total_issues is the sum of the             *)
(* issues_count fields; severity_counts has exactly the five bucket keys,  *)
(* each holding the number of issues of that severity; the issues whose    *)
(* severity is outside the five are in the total and in no bucket.         *)
(***************************************************************************)
C2_TotalsAndBuckets ==
    pc = "done" =>
        LET flat == ScanOrder(analysis_results)
        IN  /\ summary.total_issues =
                   Cardinality(UNION {{<<i, k>> : k \in 1..analysis_results[i].issues_count} :
                                         i \in 1..Len(analysis_results)})
            /\ DOMAIN summary.severity_counts = SeverityBuckets
            /\ \A sev \in SeverityBuckets :
                   summary.severity_counts[sev] =
                       Cardinality({k \in 1..Len(flat) : flat[k].severity = sev})
            /\ summary.total_issues - BucketSum(summary.severity_counts) =
                   Cardinality({k \in 1..Len(flat) : flat[k].severity \notin SeverityBuckets})

\* several ToolResults, issues in a bucket and issues outside every bucket
C2_Witness ==
    /\ pc = "done"
    /\ Len(analysis_results) >= 2
    /\ summary.severity_counts["warning"] >= 1
    /\ summary.total_issues - BucketSum(summary.severity_counts) >= 1

\* the empty list of ToolResults has been aggregated
C2_WitnessEmpty == pc = "done" /\ analysis_results = <<>> /\ summary.total_issues = 0

(***************************************************************************)
(* C3 (AggSpec).  top_rules holds (rule, count) pairs with the true        *)
(* counts, ordered by count descending and, among equal counts, by first   *)
(* appearance in the scan; it has min(5, number of distinct rules)         *)
(* entries, and every rule left out ranks below every entry.               *)
(***************************************************************************)
C3_TopRulesStableDescending ==
    pc = "done" =>
        LET top   == summary.top_rules
            flat  == ScanOrder(analysis_results)
            rules == RulesOf(flat)
        IN  /\ Len(top) = IF Cardinality(rules) < 5 THEN Cardinality(rules) ELSE 5
            /\ \A i \in 1..Len(top) :
                   /\ top[i][1] \in rules
                   /\ top[i][2] = RuleCount(flat, top[i][1])
            /\ \A i, j \in 1..Len(top) :
                   i < j => RanksAbove(flat, top[i][1], top[j][1])
            /\ \A r \in rules :
                   (\A i \in 1..Len(top) : top[i][1] # r) =>
                       \A i \in 1..Len(top) : RanksAbove(flat, top[i][1], r)

\* the sort has moved a rule forward: a strict descent in the list, and ties
\* in front of and behind it that kept their first-seen order
C3_Witness ==
    /\ pc = "done"
    /\ Len(analysis_results) >= 2
    /\ Len(summary.top_rules) >= 4
    /\ summary.top_rules # summary.rule_counts
    /\ \E i \in 1..(Len(summary.top_rules) - 1) :
           summary.top_rules[i][2] > summary.top_rules[i + 1][2]
    /\ summary.top_rules[1][2] = summary.top_rules[2][2]
    /\ summary.top_rules[Len(summary.top_rules) - 1][2]
           = summary.top_rules[Len(summary.top_rules)][2]

\* more than five distinct rules: the list is cut at five
C3_WitnessTruncated ==
    /\ pc = "done"
    /\ Len(summary.rule_counts) > 5
    /\ Len(summary.top_rules) = 5

(***************************************************************************)
(* C7 (AggSpec).                                                           *)
(***************************************************************************)
\* C7 as stated: under every permutation of the ToolResults the total, the
\* severity buckets and the rule totals are the same, and top_rules holds the
\* same entries, at most in another order
C7_PermutationOnlyReordersTopRules ==
    pc = "done" =>
        \A f \in IndexPermutations(Len(analysis_results)) :
            \A other \in {Aggregate(Permuted(analysis_results, f))} :
                /\ other.total_issues = summary.total_issues
                /\ other.severity_counts = summary.severity_counts
                /\ Range(other.rule_counts) = Range(summary.rule_counts)
                /\ Range(other.top_rules) = Range(summary.top_rules)

\* C7 as amended: under every permutation of the ToolResults the total, the
\* severity buckets and the rule totals are the same and top_rules has the same
\* counts position by position; an entry differs only where its rule is tied in
\* count with another rule
C7_PermutationKeepsTotals ==
    pc = "done" =>
        \A f \in IndexPermutations(Len(analysis_results)) :
            \A other \in {Aggregate(Permuted(analysis_results, f))} :
                /\ other.total_issues = summary.total_issues
                /\ other.severity_counts = summary.severity_counts
                /\ Range(other.rule_counts) = Range(summary.rule_counts)
                /\ Len(other.top_rules) = Len(summary.top_rules)
                /\ \A i \in 1..Len(summary.top_rules) :
                       /\ other.top_rules[i][2] = summary.top_rules[i][2]
                       /\ other.top_rules[i] \in Range(summary.rule_counts)
                       /\ other.top_rules[i] # summary.top_rules[i] =>
                              \E e \in Range(summary.rule_counts) :
                                  /\ e # summary.top_rules[i]
                                  /\ e[2] = summary.top_rules[i][2]

\* a permutation that changes top_rules
C7_Witness ==
    /\ pc = "done"
    /\ Len(analysis_results) >= 2
    /\ summary.total_issues >= 3
    /\ \E f \in IndexPermutations(Len(analysis_results)) :
           Aggregate(Permuted(analysis_results, f)).top_rules # summary.top_rules

(***************************************************************************)
(* C4 (Spec).  Once file discovery has found a header file, a tool that    *)
(* cannot be invoked does not abort the session.  Stated on finite runs:   *)
(* "crashed" is a final position, from which the summary is never          *)
(* generated.                                                              *)
(***************************************************************************)
C4_InvocationFailureDoesNotAbort ==
    ~(header_files # <<>> /\ pc = "crashed" /\ exception = "FileNotFoundError")

(***************************************************************************)
(* C5 (Spec).  After a session every detail artifact the report            *)
(* references is a file that was written.                                  *)
(***************************************************************************)
C5_ReferencesNameWrittenArtifacts ==
    pc = "done" =>
        \A i \in 1..Len(summary.references) : summary.references[i] \in written

(***************************************************************************)
(* C6 (Spec).  Every issue of every ToolResult has a severity of the       *)
(* six-valued enumeration.                                                 *)
(***************************************************************************)
C6_SeverityInEnumeration ==
    \A i \in 1..Len(analysis_results) :
        \A j \in 1..Len(analysis_results[i].issues) :
            analysis_results[i].issues[j].severity \in SeverityEnumeration

\* the entries of a document that have a <location> whose line and column
\* attributes int() accepts, in document order
RECURSIVE SoundEntries(_)
SoundEntries(errors) ==
    IF errors = <<>> THEN <<>>
    ELSE (IF /\ Head(errors).locations # <<>>
             /\ LocationInt(Head(Head(errors).locations), "line").ok
             /\ LocationInt(Head(Head(errors).locations), "column").ok
          THEN <<Head(errors)>> ELSE <<>>)
         \o SoundEntries(Tail(errors))

\* sub is a subsequence of s: its items occur in s in the same order
IsSubsequence(sub, s) ==
    \E f \in [1..Len(sub) -> 1..Len(s)] :
        /\ \A i \in 1..Len(sub) : s[f[i]] = sub[i]
        /\ \A i, j \in 1..Len(sub) : i < j => f[i] < f[j]

(***************************************************************************)
(* C8 (Spec).  The XML normalizer never raises on a malformed entry of a   *)
(* well-formed document: once such a document has been written and read,  *)
(* no ValueError has ended the run, and the cppcheck ToolResult holds, in  *)
(* document order, the IssueRecord of every entry that is not malformed.   *)
(***************************************************************************)
C8_XmlNormalizerNeverRaises ==
    (xml_report.written /\ xml_report.wellformed) =>
        /\ exception # "ValueError"
        /\ \E i \in 1..Len(analysis_results) :
               /\ analysis_results[i].tool = "cppcheck"
               /\ IsSubsequence(
                      [k \in 1..Len(SoundEntries(xml_report.errors)) |->
                          CppcheckIssue(SoundEntries(xml_report.errors)[k],
                                        Head(SoundEntries(xml_report.errors)[k].locations))],
                      analysis_results[i].issues)

LastIndexOf(s, c) ==
    IF \E i \in 1..Len(s) : s[i] = c
    THEN CHOOSE i \in 1..Len(s) : s[i] = c /\ \A j \in (i + 1)..Len(s) : s[j] # c
    ELSE 0

\* the text between the last '[' and the first ']' behind it
RuleBetweenLastBrackets(s) ==
    LET open == LastIndexOf(s, "[")
    IN  IF open = 0 \/ ~\E j \in (open + 1)..Len(s) : s[j] = "]"
        THEN UNKNOWN
        ELSE SubSeq(s, open + 1,
                    (CHOOSE j \in (open + 1)..Len(s) :
                         s[j] = "]" /\ \A k \in (open + 1)..(j - 1) : s[k] # "]") - 1)

(***************************************************************************)
(* C9 (LineSpec).  The rule of a candidate line is the text between the    *)
(* last '[' and the first ']' behind it, "unknown" when there is no such   *)
(* pair.                                                                   *)
(***************************************************************************)
C9_RuleIsLastBracketGroup ==
    (pc = "line_done" /\ parsed # <<>>) => parsed[1].rule = RuleBetweenLastBrackets(line)

AllDigits(tok) == tok # <<>> /\ \A i \in 1..Len(tok) : IsDigit(tok[i])

\* value is what C10 says of the token at Python index idx of toks
NumberAsClaimed(value, toks, idx) ==
    /\ value >= 0
    /\ idx + 1 > Len(toks) => value = 0
    /\ (idx + 1 <= Len(toks) /\ AllDigits(toks[idx + 1])) =>
           value = DigitsValue(toks[idx + 1], 1, 0)
    /\ (idx + 1 <= Len(toks) /\ toks[idx + 1] # <<>> /\ Head(toks[idx + 1]) = "-") =>
           value = 0

(***************************************************************************)
(* C10 (LineSpec).  line and column of a candidate line are non-negative:  *)
(* the value of the token at index 1 / 2 when it is a string of digits, 0  *)
(* when the token is absent or is a signed negative number.                *)
(***************************************************************************)
C10_LineColumnNonNegative ==
    (pc = "line_done" /\ parsed # <<>>) =>
        /\ NumberAsClaimed(parsed[1].line, Split(line, ":"), 1)
        /\ NumberAsClaimed(parsed[1].column, Split(line, ":"), 2)

====
